---- MODULE Spec2Model ----
(***************************************************************************)
(* Model of the comment and playlist controllers                           *)
(*   src/src/controllers/comment.controller.js                             *)
(*   src/src/controllers/playlist.controller.js                            *)
(* Every handler is an async function: each `await` of a store call on a   *)
(* mutable collection (comments, likes, playlists) is one atomic step, and *)
(* other requests may run between two steps of the same handler.  The      *)
(* videos and users collections are never written by these controllers,    *)
(* so a lookup in them is folded into the step it follows.                 *)
(* A handler whose first step ends the request (a read, a create, a        *)
(* failed check) is a single action; a handler that passed its checks      *)
(* occupies a request slot of `req` until its last store call returns.     *)
(* `resp` is the response produced by the step just taken; it leaves the   *)
(* server (ResponseSent) before the next step of any request.              *)
(***************************************************************************)
EXTENDS Integers, Sequences, FiniteSets, TLC

VARIABLES comments, nextComment, likes, playlists, nextPlaylist, req, resp

vars == <<comments, nextComment, likes, playlists, nextPlaylist, req, resp>>

----------------------------------------------------------------------------
(* Bounds of the model *)

MaxComments == 2
MaxPlaylists == 2

(* Concurrent requests that have passed their checks and await a store call *)
Reqs == {"r1", "r2"}

----------------------------------------------------------------------------
(* Identities and the read-only collections *)

Users == {"u1", "u2"}
\* req.user is undefined when no identity is supplied
NoUser == "none"

\* an id that is no ObjectId: isValidObjectId is false, and a cast of it throws
BadId == -1
BadVideoId == "bad"
\* a well-formed video id that names no document
NoVideoId == "v0"

VideoIds == {"v1", "v2"}
VideoIdInputs == VideoIds \cup {NoVideoId, BadVideoId}

\* the videos collection, in its natural order
VideoOrder == <<"v1", "v2">>
videos ==
    [v \in VideoIds |->
        IF v = "v1" THEN [_id |-> "v1", owner |-> "u1", isPublished |-> TRUE, views |-> 1]
                    ELSE [_id |-> "v2", owner |-> "u2", isPublished |-> FALSE, views |-> 2]]

\* the users collection, in its natural order
UserOrder == <<"u1", "u2">>
users ==
    [u \in Users |->
        [_id |-> u, username |-> u, fullName |-> u, avatar |-> u]]

CommentIds == 1..MaxComments
CommentIdInputs == CommentIds \cup {BadId}
PlaylistIds == 1..MaxPlaylists
PlaylistIdInputs == PlaylistIds \cup {BadId}

\* request bodies: "" is the empty (falsy) string
Contents == {"a", "b"}
ContentInputs == Contents \cup {""}
Names == {"n1", "n2"}
NameInputs == Names \cup {""}
Descriptions == {"d1"}
DescriptionInputs == Descriptions \cup {""}

\* query parameters of getVideoComments
DefaultPage == 1
DefaultLimit == 10
Pages == {DefaultPage, 2}
Limits == {1, DefaultLimit}

----------------------------------------------------------------------------
(* Store primitives *)

isValidObjectId(id) == id # BadId
isValidVideoId(id) == id # BadVideoId

\* the value of a field of a document; a field the document lacks reads as null
Null == "null"
Field(doc, f) == IF f \in DOMAIN doc THEN doc[f] ELSE Null

\* the ids of a set of integers, highest first
RECURSIVE SortDesc(_)
SortDesc(S) ==
    IF S = {} THEN <<>>
    ELSE LET m == CHOOSE x \in S : \A y \in S : y <= x
         IN <<m>> \o SortDesc(S \ {m})

RECURSIVE SumSeq(_)
SumSeq(s) == IF s = <<>> THEN 0 ELSE Head(s) + SumSeq(Tail(s))

Range(s) == {s[i] : i \in DOMAIN s}

----------------------------------------------------------------------------
(* Requests and responses *)

IdleReq ==
    [pc |-> "idle", op |-> "none", user |-> NoUser, id |-> 0, vid |-> NoVideoId,
     content |-> "", name |-> "", description |-> ""]

\* a response: the HTTP status, the kind of failure ("none" on success) and
\* the data of the envelope (a document, a page of views, or nothing).  Kept
\* with it for the properties: the number of store lookups the handler made
\* before it answered, the viewer of a page of comments, the videoId
\* parameter of an add or remove request that reached its write, and whether
\* the write of an update changed the document
NoResp ==
    [op |-> "none", statusCode |-> 0, error |-> "none", reads |-> 0,
     user |-> NoUser, vid |-> NoVideoId, changed |-> FALSE, data |-> <<>>]

\* new ApiResponse(statusCode, data, message) sent for a request
ApiResponse(op, statusCode, reads, data) ==
    [op |-> op, statusCode |-> statusCode, error |-> "none", reads |-> reads,
     user |-> NoUser, vid |-> NoVideoId, changed |-> FALSE, data |-> data]

\* throw new ApiError(statusCode, message); error is the kind of failure
ApiError(op, statusCode, error, reads) ==
    [op |-> op, statusCode |-> statusCode, error |-> error, reads |-> reads,
     user |-> NoUser, vid |-> NoVideoId, changed |-> FALSE, data |-> <<>>]

\* the response of a write step, with the bookkeeping of the step
Written(reply, videoId, changed) ==
    [reply EXCEPT !.vid = videoId, !.changed = changed]

\* a findById of a malformed id rejects with a CastError before the store is
\* asked; no handler catches it
CastError(op, reads) == ApiError(op, 500, "CastError", reads)

\* no response is waiting to leave: the next step of a request may run
Ready == resp = NoResp

Init ==
    /\ comments = <<>>
    /\ nextComment = 1
    /\ likes = {}
    /\ playlists = <<>>
    /\ nextPlaylist = 1
    /\ req = [r \in Reqs |-> IdleReq]
    /\ resp = NoResp

----------------------------------------------------------------------------
(* Aggregation stages *)

\* the documents of a collection, in its natural order
DocsOf(order, coll) == [i \in DOMAIN order |-> coll[order[i]]]

\* $lookup into a collection held as a sequence: the documents whose
\* foreignField equals the local value (a missing field reads as null)
Lookup(docs, foreignField, localVal) ==
    LET Joined(d) == Field(d, foreignField) = localVal
    IN SelectSeq(docs, Joined)

\* a likes $lookup that joins nothing: every like is attached to the comment
LookupLikesUnjoined(foreignField, localVal) == likes

\* $lookup into the likes collection: the likes whose foreignField equals the
\* local value
LookupLikes(foreignField, localVal) ==
    {l \in likes : Field(l, foreignField) = localVal}

\* $first of an array: its first element, or nothing
First(s) == IF s = <<>> THEN <<>> ELSE <<Head(s)>>

\* aggregatePaginate: page `page` of the documents, `limit` to a page
Min(a, b) == IF a <= b THEN a ELSE b
Paginate(docs, page, limit) ==
    SubSeq(docs, (page - 1) * limit + 1, Min(page * limit, Len(docs)))

----------------------------------------------------------------------------
(* comment.controller.js *)

\* the foreignField of the owner $lookup, as written in the pipeline
OwnerForeignField == "_id,"
\* the foreignField of the likes $lookup
LikesForeignField == "comment"

\* req.user?._id inside the pipeline: undefined is sent as null
ViewerId(viewer) == IF viewer = NoUser THEN Null ELSE viewer

\* $project of the owner sub-document
ProjectOwner(owner) ==
    [i \in DOMAIN owner |->
        [username |-> owner[i].username, fullName |-> owner[i].fullName,
         avatar |-> owner[i].avatar]]

\* $lookup owner, $lookup likes, $addFields and $project for one comment
CommentView(c, viewer) ==
    LET owner == Lookup(DocsOf(UserOrder, users), OwnerForeignField, comments[c].owner)
        commentLikes == LookupLikes(LikesForeignField, c)
    IN [_id |-> c,
        content |-> comments[c].content,
        createdAt |-> c,
        likesCount |-> Cardinality(commentLikes),
        owner |-> ProjectOwner(First(owner)),
        isLiked |-> ViewerId(viewer) \in {l.likedBy : l \in commentLikes}]

\* $match on the video, then $sort by createdAt descending (ids are handed
\* out in creation order)
MatchedComments(videoId) ==
    SortDesc({c \in DOMAIN comments : comments[c].video = videoId})

CommentAggregate(videoId, viewer) ==
    LET ids == MatchedComments(videoId)
    IN [i \in DOMAIN ids |-> CommentView(ids[i], viewer)]

getVideoComments(videoId, viewer, page, limit) ==
    /\ Ready
    /\ resp' =
        IF ~isValidVideoId(videoId)
        THEN CastError("getVideoComments", 0)
        ELSE IF videoId \notin VideoIds
        THEN ApiError("getVideoComments", 404, "NotFound", 1)
        ELSE [ApiResponse("getVideoComments", 200, 2,
                          Paginate(CommentAggregate(videoId, viewer), page, limit))
              EXCEPT !.user = viewer]
    /\ UNCHANGED <<comments, nextComment, likes, playlists, nextPlaylist, req>>

\* Comment.create({content, owner, video}): the collection with the new
\* document under a fresh id
CommentCreate(id, content, owner, videoId) ==
    [c \in DOMAIN comments \cup {id} |->
        IF c = id THEN [_id |-> id, content |-> content, owner |-> owner,
                        video |-> videoId]
                  ELSE comments[c]]

addComment(user, videoId, content) ==
    /\ Ready
    /\ IF content = ""
       THEN /\ resp' = ApiError("addComment", 400, "ValidationError", 0)
            /\ UNCHANGED <<comments, nextComment>>
       ELSE IF ~isValidVideoId(videoId)
       THEN /\ resp' = CastError("addComment", 0)
            /\ UNCHANGED <<comments, nextComment>>
       ELSE IF videoId \notin VideoIds
       THEN /\ resp' = ApiError("addComment", 400, "NotFound", 1)
            /\ UNCHANGED <<comments, nextComment>>
       ELSE /\ nextComment <= MaxComments
            /\ comments' = CommentCreate(nextComment, content, user, videoId)
            /\ nextComment' = nextComment + 1
            \* the response carries the message in the place of the data
            /\ resp' = ApiResponse("addComment", 201, 1,
                                   <<[message |-> "Comment added successfully"]>>)
    /\ UNCHANGED <<likes, playlists, nextPlaylist, req>>

\* updateComment up to the ownership check
updateCommentFind(r, user, commentId, content) ==
    /\ Ready
    /\ req[r].pc = "idle"
    /\ IF content = ""
       THEN /\ resp' = ApiError("updateComment", 400, "ValidationError", 0)
            /\ UNCHANGED req
       ELSE IF ~isValidObjectId(commentId)
       THEN /\ resp' = CastError("updateComment", 0)
            /\ UNCHANGED req
       ELSE IF commentId \notin DOMAIN comments
       THEN /\ resp' = ApiError("updateComment", 400, "NotFound", 1)
            /\ UNCHANGED req
       ELSE IF comments[commentId].owner # user
       THEN /\ resp' = ApiError("updateComment", 400, "PermissionDenied", 1)
            /\ UNCHANGED req
       ELSE /\ req' = [req EXCEPT ![r] =
                          [IdleReq EXCEPT !.pc = "found", !.op = "updateComment",
                                          !.user = user, !.id = commentId,
                                          !.content = content]]
            /\ resp' = NoResp
    /\ UNCHANGED <<comments, nextComment, likes, playlists, nextPlaylist>>

\* an update filtered by the owner of the comment instead of its id
CommentSetContentOfOwner(commentId, content) ==
    [c \in DOMAIN comments |->
        IF comments[c].owner = comments[commentId].owner
        THEN [comments[c] EXCEPT !.content = content]
        ELSE comments[c]]

\* Comment.findByIdAndUpdate(id, {$set: {content}}, {new: true}): the
\* collection after the update
CommentSetContent(commentId, content) ==
    [comments EXCEPT ![commentId].content = content]

\* updateComment from findByIdAndUpdate on
updateCommentWrite(r) ==
    /\ Ready
    /\ req[r].pc = "found"
    /\ req[r].op = "updateComment"
    /\ IF req[r].id \in DOMAIN comments
       THEN /\ comments' = CommentSetContent(req[r].id, req[r].content)
            /\ resp' = Written(ApiResponse("updateComment", 200, 2,
                                           <<comments'[req[r].id]>>),
                               NoVideoId, comments' # comments)
       ELSE /\ resp' = ApiError("updateComment", 500, "InternalError", 2)
            /\ UNCHANGED comments
    /\ req' = [req EXCEPT ![r] = IdleReq]
    /\ UNCHANGED <<nextComment, likes, playlists, nextPlaylist>>

\* deleteComment up to the ownership check
deleteCommentFind(r, user, commentId) ==
    /\ Ready
    /\ req[r].pc = "idle"
    /\ IF ~isValidObjectId(commentId)
       THEN /\ resp' = CastError("deleteComment", 0)
            /\ UNCHANGED req
       ELSE IF commentId \notin DOMAIN comments
       THEN /\ resp' = ApiError("deleteComment", 404, "NotFound", 1)
            /\ UNCHANGED req
       ELSE IF comments[commentId].owner # user
       THEN /\ resp' = ApiError("deleteComment", 400, "PermissionDenied", 1)
            /\ UNCHANGED req
       ELSE /\ req' = [req EXCEPT ![r] =
                          [IdleReq EXCEPT !.pc = "found", !.op = "deleteComment",
                                          !.user = user, !.id = commentId]]
            /\ resp' = NoResp
    /\ UNCHANGED <<comments, nextComment, likes, playlists, nextPlaylist>>

\* Comment.findByIdAndDelete(commentId): the collection after the delete
CommentDelete(commentId) ==
    [c \in DOMAIN comments \ {commentId} |-> comments[c]]

\* deleteComment: findByIdAndDelete
deleteCommentDelete(r) ==
    /\ Ready
    /\ req[r].pc = "found"
    /\ req[r].op = "deleteComment"
    /\ comments' = CommentDelete(req[r].id)
    /\ req' = [req EXCEPT ![r].pc = "deleted"]
    /\ resp' = NoResp
    /\ UNCHANGED <<nextComment, likes, playlists, nextPlaylist>>

\* Like.updateMany({comment, likedBy}) called with one argument, the like
\* collections it can leave.  No like is removed.  Read as a filter with no
\* update document, the argument changes nothing; read as the update
\* document of a query with no filter, it sets comment and likedBy on every
\* like (likes is a set, so the likes made equal count once: they reference
\* a deleted comment, which no view counts).
LikeUpdateMany(commentId, likedBy) ==
    { likes, { [comment |-> commentId, likedBy |-> likedBy] : l \in likes } }

\* deleteComment: the likes step and the response
deleteCommentLikes(r) ==
    /\ Ready
    /\ req[r].pc = "deleted"
    /\ req[r].op = "deleteComment"
    /\ likes' \in LikeUpdateMany(req[r].id, req[r].user)
    /\ resp' = ApiResponse("deleteComment", 200, 3,
                           <<[commentId |-> req[r].id]>>)
    /\ req' = [req EXCEPT ![r] = IdleReq]
    /\ UNCHANGED <<comments, nextComment, playlists, nextPlaylist>>

\* a user likes, or takes back the like of, an existing comment (the like
\* controller is outside these two files)
toggleCommentLike(user, commentId) ==
    /\ Ready
    /\ commentId \in DOMAIN comments
    /\ LET like == [comment |-> commentId, likedBy |-> user]
       IN likes' = IF like \in likes THEN likes \ {like} ELSE likes \cup {like}
    /\ resp' = NoResp
    /\ UNCHANGED <<comments, nextComment, playlists, nextPlaylist, req>>

\* res.status(...).json(...) hands the response to the client; the handlers
\* keep no reference to it, so the next step of any request starts from here
ResponseSent ==
    /\ resp # NoResp
    /\ resp' = NoResp
    /\ UNCHANGED <<comments, nextComment, likes, playlists, nextPlaylist, req>>

NextComments ==
    \/ ResponseSent
    \/ \E v \in VideoIdInputs, u \in Users \cup {NoUser}, p \in Pages, l \in Limits :
          getVideoComments(v, u, p, l)
    \/ \E u \in Users, v \in VideoIdInputs, c \in ContentInputs : addComment(u, v, c)
    \/ \E r \in Reqs, u \in Users, id \in CommentIdInputs, c \in ContentInputs :
          updateCommentFind(r, u, id, c)
    \/ \E r \in Reqs : updateCommentWrite(r)
    \/ \E r \in Reqs, u \in Users, id \in CommentIdInputs : deleteCommentFind(r, u, id)
    \/ \E r \in Reqs : deleteCommentDelete(r)
    \/ \E r \in Reqs : deleteCommentLikes(r)
    \/ \E u \in Users, id \in CommentIds : toggleCommentLike(u, id)

SpecComments == Init /\ [][NextComments]_vars

----------------------------------------------------------------------------
(* playlist.controller.js *)

\* Playlist.create({name, description, owner}): the collection with the new
\* document under a fresh id; the schema starts videos as an empty array
PlaylistCreate(id, name, description, owner) ==
    [p \in DOMAIN playlists \cup {id} |->
        IF p = id THEN [_id |-> id, name |-> name, description |-> description,
                        owner |-> owner, videos |-> <<>>]
                  ELSE playlists[p]]

createPlaylist(user, name, description) ==
    /\ Ready
    /\ IF name = "" \/ description = ""
       THEN /\ resp' = ApiError("createPlaylist", 400, "ValidationError", 0)
            /\ UNCHANGED <<playlists, nextPlaylist>>
       ELSE /\ nextPlaylist <= MaxPlaylists
            /\ playlists' = PlaylistCreate(nextPlaylist, name, description, user)
            /\ nextPlaylist' = nextPlaylist + 1
            /\ resp' = ApiResponse("createPlaylist", 200, 0, <<playlists'[nextPlaylist]>>)
    /\ UNCHANGED <<comments, nextComment, likes, req>>

\* $lookup with an array as localField: the documents whose foreignField is
\* an element of the array, in the order of the joined collection
LookupIn(docs, foreignField, localVals) ==
    LET Joined(d) == Field(d, foreignField) \in Range(localVals)
    IN SelectSeq(docs, Joined)

\* $match {"videos.isPublished": true} on a playlist whose videos are joined:
\* the playlist passes when some element of the array is published
MatchPublished(joined) ==
    \E i \in DOMAIN joined : joined[i].isPublished = TRUE

\* $project of the videos array (the fields kept that the model holds)
ProjectVideos(joined) ==
    [i \in DOMAIN joined |-> [_id |-> joined[i]._id, views |-> joined[i].views]]

\* the pipeline of getPlaylistById on one playlist: nothing, or the detail view
PlaylistAggregate(playlistId) ==
    IF playlistId \notin DOMAIN playlists THEN <<>>
    ELSE LET p == playlists[playlistId]
             joined == LookupIn(DocsOf(VideoOrder, videos), "_id", p.videos)
             owner == Lookup(DocsOf(UserOrder, users), "_id", p.owner)
         IN IF ~MatchPublished(joined) THEN <<>>
            ELSE <<[_id |-> playlistId,
                    name |-> p.name,
                    description |-> p.description,
                    totalVideos |-> Len(joined),
                    totalViews |-> SumSeq([i \in DOMAIN joined |-> joined[i].views]),
                    videos |-> ProjectVideos(joined),
                    owner |-> ProjectOwner(First(owner))]>>

\* getPlaylistById up to Playlist.findById
getPlaylistByIdFind(r, playlistId) ==
    /\ Ready
    /\ req[r].pc = "idle"
    /\ IF ~isValidObjectId(playlistId)
       THEN /\ resp' = ApiError("getPlaylistById", 400, "ValidationError", 0)
            /\ UNCHANGED req
       ELSE IF playlistId \notin DOMAIN playlists
       THEN /\ resp' = ApiError("getPlaylistById", 404, "NotFound", 1)
            /\ UNCHANGED req
       ELSE /\ req' = [req EXCEPT ![r] =
                          [IdleReq EXCEPT !.pc = "found", !.op = "getPlaylistById",
                                          !.id = playlistId]]
            /\ resp' = NoResp
    /\ UNCHANGED <<comments, nextComment, likes, playlists, nextPlaylist>>

\* getPlaylistById: Playlist.aggregate and the response, playlistVideos[0]
getPlaylistByIdAggregate(r) ==
    /\ Ready
    /\ req[r].pc = "found"
    /\ req[r].op = "getPlaylistById"
    /\ resp' = ApiResponse("getPlaylistById", 200, 2, PlaylistAggregate(req[r].id))
    /\ req' = [req EXCEPT ![r] = IdleReq]
    /\ UNCHANGED <<comments, nextComment, likes, playlists, nextPlaylist>>

\* the JavaScript a && b on strings: b when a is a non-empty string, else a
JsAnd(a, b) == IF a # "" THEN b ELSE a

\* the value the add and remove handlers compare with the acting user
MembershipOwner(playlistId, videoId) ==
    JsAnd(playlists[playlistId].owner, videos[videoId].owner)

\* the id check of the add and remove handlers
MembershipIdsRejected(playlistId, videoId) ==
    ~(isValidObjectId(playlistId) \/ isValidVideoId(videoId))

\* addVideoToPlaylist and removeVideoFromPlaylist up to the ownership check
MembershipFind(op, r, user, playlistId, videoId) ==
    /\ Ready
    /\ req[r].pc = "idle"
    /\ IF MembershipIdsRejected(playlistId, videoId)
       THEN /\ resp' = ApiError(op, 400, "ValidationError", 0)
            /\ UNCHANGED req
       ELSE IF ~isValidObjectId(playlistId)
       THEN /\ resp' = CastError(op, 0)
            /\ UNCHANGED req
       ELSE IF ~isValidVideoId(videoId)
       THEN /\ resp' = CastError(op, 1)
            /\ UNCHANGED req
       ELSE IF playlistId \notin DOMAIN playlists
       THEN /\ resp' = ApiError(op, 400, "NotFound", 2)
            /\ UNCHANGED req
       ELSE IF videoId \notin VideoIds
       THEN /\ resp' = ApiError(op, 400, "NotFound", 2)
            /\ UNCHANGED req
       ELSE IF MembershipOwner(playlistId, videoId) # user
       THEN /\ resp' = ApiError(op, 400, "PermissionDenied", 2)
            /\ UNCHANGED req
       ELSE /\ req' = [req EXCEPT ![r] =
                          [IdleReq EXCEPT !.pc = "checked", !.op = op, !.user = user,
                                          !.id = playlistId, !.vid = videoId]]
            /\ resp' = NoResp
    /\ UNCHANGED <<comments, nextComment, likes, playlists, nextPlaylist>>

addVideoToPlaylistFind(r, user, playlistId, videoId) ==
    MembershipFind("addVideoToPlaylist", r, user, playlistId, videoId)

removeVideoFromPlaylistFind(r, user, playlistId, videoId) ==
    MembershipFind("removeVideoFromPlaylist", r, user, playlistId, videoId)

\* $push in the place of $addToSet: the value is appended always
AddToSetPush(array, v) == Append(array, v)

\* $addToSet: the array with the value appended unless it holds it already
AddToSet(array, v) == IF v \in Range(array) THEN array ELSE Append(array, v)

\* a $pull whose condition is inverted: only the elements equal to the value
\* are kept
PullOthers(array, v) ==
    LET Kept(x) == x = v
    IN SelectSeq(array, Kept)

\* $pull: the array without any element equal to the value
Pull(array, v) ==
    LET Kept(x) == x # v
    IN SelectSeq(array, Kept)

\* addVideoToPlaylist from findByIdAndUpdate on
addVideoToPlaylistWrite(r) ==
    /\ Ready
    /\ req[r].pc = "checked"
    /\ req[r].op = "addVideoToPlaylist"
    /\ IF req[r].id \in DOMAIN playlists
       THEN /\ playlists' = [playlists EXCEPT ![req[r].id].videos =
                                AddToSet(@, req[r].vid)]
            /\ resp' = Written(ApiResponse("addVideoToPlaylist", 200, 3,
                                           <<playlists'[req[r].id]>>),
                               req[r].vid, playlists' # playlists)
       ELSE /\ resp' = Written(ApiError("addVideoToPlaylist", 500, "InternalError", 3),
                               req[r].vid, FALSE)
            /\ UNCHANGED playlists
    /\ req' = [req EXCEPT ![r] = IdleReq]
    /\ UNCHANGED <<comments, nextComment, likes, nextPlaylist>>

\* removeVideoFromPlaylist from findByIdAndUpdate on: the result is sent
\* as it is, a document or null
removeVideoFromPlaylistWrite(r) ==
    /\ Ready
    /\ req[r].pc = "checked"
    /\ req[r].op = "removeVideoFromPlaylist"
    /\ IF req[r].id \in DOMAIN playlists
       THEN /\ playlists' = [playlists EXCEPT ![req[r].id].videos =
                                Pull(@, req[r].vid)]
            /\ resp' = Written(ApiResponse("removeVideoFromPlaylist", 200, 3,
                                           <<playlists'[req[r].id]>>),
                               req[r].vid, playlists' # playlists)
       ELSE /\ resp' = Written(ApiResponse("removeVideoFromPlaylist", 200, 3, <<>>),
                               req[r].vid, FALSE)
            /\ UNCHANGED playlists
    /\ req' = [req EXCEPT ![r] = IdleReq]
    /\ UNCHANGED <<comments, nextComment, likes, nextPlaylist>>

\* deletePlaylist up to the ownership check
deletePlaylistFind(r, user, playlistId) ==
    /\ Ready
    /\ req[r].pc = "idle"
    /\ IF ~isValidObjectId(playlistId)
       THEN /\ resp' = ApiError("deletePlaylist", 400, "ValidationError", 0)
            /\ UNCHANGED req
       ELSE IF playlistId \notin DOMAIN playlists
       THEN /\ resp' = ApiError("deletePlaylist", 400, "NotFound", 1)
            /\ UNCHANGED req
       ELSE IF playlists[playlistId].owner # user
       THEN /\ resp' = ApiError("deletePlaylist", 400, "PermissionDenied", 1)
            /\ UNCHANGED req
       ELSE /\ req' = [req EXCEPT ![r] =
                          [IdleReq EXCEPT !.pc = "checked", !.op = "deletePlaylist",
                                          !.user = user, !.id = playlistId]]
            /\ resp' = NoResp
    /\ UNCHANGED <<comments, nextComment, likes, playlists, nextPlaylist>>

\* Playlist.findByIdAndRemove(playlistId): the collection after the removal
PlaylistRemove(playlistId) ==
    [p \in DOMAIN playlists \ {playlistId} |-> playlists[p]]

\* deletePlaylist: findByIdAndRemove and the response (the message is sent
\* in the place of the data)
deletePlaylistRemove(r) ==
    /\ Ready
    /\ req[r].pc = "checked"
    /\ req[r].op = "deletePlaylist"
    /\ playlists' = PlaylistRemove(req[r].id)
    /\ resp' = ApiResponse("deletePlaylist", 200, 2,
                           <<[message |-> "playlist deleted successfully"]>>)
    /\ req' = [req EXCEPT ![r] = IdleReq]
    /\ UNCHANGED <<comments, nextComment, likes, nextPlaylist>>

\* updatePlaylist up to the ownership check
updatePlaylistFind(r, user, playlistId, name, description) ==
    /\ Ready
    /\ req[r].pc = "idle"
    /\ IF ~isValidObjectId(playlistId)
       THEN /\ resp' = ApiError("updatePlaylist", 400, "ValidationError", 0)
            /\ UNCHANGED req
       ELSE IF name = "" \/ description = ""
       THEN /\ resp' = ApiError("updatePlaylist", 400, "ValidationError", 0)
            /\ UNCHANGED req
       ELSE IF playlistId \notin DOMAIN playlists
       THEN /\ resp' = ApiError("updatePlaylist", 400, "NotFound", 1)
            /\ UNCHANGED req
       ELSE IF playlists[playlistId].owner # user
       THEN /\ resp' = ApiError("updatePlaylist", 400, "PermissionDenied", 1)
            /\ UNCHANGED req
       ELSE /\ req' = [req EXCEPT ![r] =
                          [IdleReq EXCEPT !.pc = "checked", !.op = "updatePlaylist",
                                          !.user = user, !.id = playlistId,
                                          !.name = name, !.description = description]]
            /\ resp' = NoResp
    /\ UNCHANGED <<comments, nextComment, likes, playlists, nextPlaylist>>

\* Playlist.findByIdAndUpdate(id, {$set: {name, description}}, {new: true}):
\* the collection after the update
PlaylistSetText(playlistId, name, description) ==
    [playlists EXCEPT ![playlistId].name = name,
                      ![playlistId].description = description]

\* updatePlaylist from findByIdAndUpdate on: the result is sent as it is, a
\* document or null
updatePlaylistWrite(r) ==
    /\ Ready
    /\ req[r].pc = "checked"
    /\ req[r].op = "updatePlaylist"
    /\ IF req[r].id \in DOMAIN playlists
       THEN /\ playlists' = PlaylistSetText(req[r].id, req[r].name, req[r].description)
            /\ resp' = Written(ApiResponse("updatePlaylist", 200, 2,
                                           <<playlists'[req[r].id]>>),
                               NoVideoId, playlists' # playlists)
       ELSE /\ resp' = ApiResponse("updatePlaylist", 200, 2, <<>>)
            /\ UNCHANGED playlists
    /\ req' = [req EXCEPT ![r] = IdleReq]
    /\ UNCHANGED <<comments, nextComment, likes, nextPlaylist>>

NextPlaylists ==
    \/ ResponseSent
    \/ \E u \in Users, n \in NameInputs, d \in DescriptionInputs : createPlaylist(u, n, d)
    \/ \E r \in Reqs, id \in PlaylistIdInputs : getPlaylistByIdFind(r, id)
    \/ \E r \in Reqs : getPlaylistByIdAggregate(r)
    \/ \E r \in Reqs, u \in Users, id \in PlaylistIdInputs, v \in VideoIdInputs :
          addVideoToPlaylistFind(r, u, id, v)
    \/ \E r \in Reqs : addVideoToPlaylistWrite(r)
    \/ \E r \in Reqs, u \in Users, id \in PlaylistIdInputs, v \in VideoIdInputs :
          removeVideoFromPlaylistFind(r, u, id, v)
    \/ \E r \in Reqs : removeVideoFromPlaylistWrite(r)
    \/ \E r \in Reqs, u \in Users, id \in PlaylistIdInputs : deletePlaylistFind(r, u, id)
    \/ \E r \in Reqs : deletePlaylistRemove(r)
    \/ \E r \in Reqs, u \in Users, id \in PlaylistIdInputs, n \in NameInputs,
          d \in DescriptionInputs : updatePlaylistFind(r, u, id, n, d)
    \/ \E r \in Reqs : updatePlaylistWrite(r)

SpecPlaylists == Init /\ [][NextPlaylists]_vars

----------------------------------------------------------------------------
(* Properties *)

\* the mutation requests of the playlist controller that have passed their
\* checks and are at their write
PlaylistWrite(r) ==
    \/ addVideoToPlaylistWrite(r)
    \/ removeVideoFromPlaylistWrite(r)
    \/ deletePlaylistRemove(r)
    \/ updatePlaylistWrite(r)

\* C1: every mutation of a comment or a playlist asked by a user who is not
\* the stored owner of the target is answered PermissionDenied, and no step
\* of such a request modifies the target.
C1_OnlyOwnerMutates ==
    [][/\ \A r \in Reqs, u \in Users, id \in CommentIds, c \in Contents :
            /\ id \in DOMAIN comments
            /\ comments[id].owner # u
            /\ updateCommentFind(r, u, id, c) \/ deleteCommentFind(r, u, id)
            => resp'.error = "PermissionDenied"
       /\ \A r \in Reqs, u \in Users, id \in PlaylistIds, v \in VideoIds, n \in Names,
             d \in Descriptions :
            /\ id \in DOMAIN playlists
            /\ playlists[id].owner # u
            /\ \/ addVideoToPlaylistFind(r, u, id, v)
               \/ removeVideoFromPlaylistFind(r, u, id, v)
               \/ deletePlaylistFind(r, u, id)
               \/ updatePlaylistFind(r, u, id, n, d)
            => resp'.error = "PermissionDenied"
       /\ \A r \in Reqs :
            /\ req[r].id \in DOMAIN playlists
            /\ playlists[req[r].id].owner # req[r].user
            /\ PlaylistWrite(r)
            => playlists' = playlists
       /\ \A r \in Reqs :
            /\ req[r].id \in DOMAIN comments
            /\ comments[req[r].id].owner # req[r].user
            /\ updateCommentWrite(r) \/ deleteCommentDelete(r)
            => comments' = comments
      ]_vars

\* C2: once deleteComment has answered success, the comment is gone and no
\* like of any user references it.
C2_DeleteRemovesLikes ==
    (resp.op = "deleteComment" /\ resp.statusCode = 200) =>
        LET id == resp.data[1].commentId
        IN /\ id \notin DOMAIN comments
           /\ \A l \in likes : l.comment # id

\* C3: no playlist holds the same video id twice, whatever createPlaylist,
\* addVideoToPlaylist and removeVideoFromPlaylist calls ran and however they
\* interleaved.
C3_NoDuplicateVideos ==
    \A p \in DOMAIN playlists :
        \A i, j \in DOMAIN playlists[p].videos :
            i # j => playlists[p].videos[i] # playlists[p].videos[j]

\* an add of a video the playlist held already has just succeeded, and the
\* returned playlist holds it once
C3_Witness ==
    /\ resp.op = "addVideoToPlaylist"
    /\ resp.statusCode = 200
    /\ ~resp.changed
    /\ Cardinality({i \in DOMAIN resp.data[1].videos :
                      resp.data[1].videos[i] = resp.vid}) = 1
    /\ Len(resp.data[1].videos) = 2

\* the published videos of a playlist
PublishedOf(playlistId) ==
    {v \in Range(playlists[playlistId].videos) \cap VideoIds : videos[v].isPublished}

RECURSIVE SumViews(_)
SumViews(S) ==
    IF S = {} THEN 0
    ELSE LET v == CHOOSE x \in S : TRUE
         IN videos[v].views + SumViews(S \ {v})

\* C4: for a playlist that holds a published video, getPlaylistById answers
\* a detail view whose videos are exactly the published videos of the
\* playlist, totalVideos their number and totalViews the sum of their views.
C4_DetailOnlyPublished ==
    [][\A r \in Reqs :
          /\ getPlaylistByIdAggregate(r)
          /\ req[r].id \in DOMAIN playlists
          /\ PublishedOf(req[r].id) # {}
          => /\ resp'.data # <<>>
             /\ LET view == resp'.data[1]
                    pub == PublishedOf(req[r].id)
                IN /\ {view.videos[i]._id : i \in DOMAIN view.videos} = pub
                   /\ Len(view.videos) = Cardinality(pub)
                   /\ view.totalVideos = Cardinality(pub)
                   /\ view.totalViews = SumViews(pub)
      ]_vars

\* C5: addVideoToPlaylist and removeVideoFromPlaylist answer ValidationError,
\* before any store lookup, whenever playlistId or videoId is malformed.
C5_MalformedIdRejected ==
    [][\A r \in Reqs, u \in Users, id \in PlaylistIdInputs, v \in VideoIdInputs :
          /\ ~isValidObjectId(id) \/ ~isValidVideoId(v)
          /\ addVideoToPlaylistFind(r, u, id, v) \/ removeVideoFromPlaylistFind(r, u, id, v)
          => /\ resp'.error = "ValidationError"
             /\ resp'.reads = 0
             /\ playlists' = playlists
      ]_vars

C7_LikesCountAndIsLiked ==
    (resp.op = "getVideoComments" /\ resp.statusCode = 200) =>
        \A i \in DOMAIN resp.data :
            LET view == resp.data[i]
                mine == {k \in likes : k.comment = view._id}
            IN /\ view.likesCount = Cardinality(mine)
               /\ view.isLiked =
                     (resp.user # NoUser /\ \E k \in mine : k.likedBy = resp.user)

\* a page of two views: one with two likes, one of them the viewer's, and one
\* with no like
C7_Witness ==
    /\ resp.op = "getVideoComments"
    /\ resp.statusCode = 200
    /\ \E i, j \in DOMAIN resp.data :
          /\ resp.data[i].likesCount = 2
          /\ resp.data[i].isLiked
          /\ resp.data[j].likesCount = 0
          /\ ~resp.data[j].isLiked

\* C8: every view getVideoComments returns for a comment whose owner is an
\* existing user carries the username, fullName and avatar of that user.
C8_OwnerJoined ==
    (resp.op = "getVideoComments" /\ resp.statusCode = 200) =>
        \A i \in DOMAIN resp.data :
            LET owner == comments[resp.data[i]._id].owner
            IN owner \in Users =>
                  resp.data[i].owner = <<[username |-> users[owner].username,
                                          fullName |-> users[owner].fullName,
                                          avatar |-> users[owner].avatar]>>

\* C9: the write of an updateComment, updatePlaylist, addVideoToPlaylist or
\* removeVideoFromPlaylist request whose target was deleted after the lookup
\* answers InternalError, and does not bring the document back.
C9_WriteOnDeletedFails ==
    [][\A r \in Reqs :
          \/ updateCommentWrite(r) /\ req[r].id \notin DOMAIN comments
          \/ /\ \/ updatePlaylistWrite(r)
                \/ addVideoToPlaylistWrite(r)
                \/ removeVideoFromPlaylistWrite(r)
             /\ req[r].id \notin DOMAIN playlists
          => /\ resp'.error = "InternalError"
             /\ resp'.statusCode = 500
             /\ comments' = comments
             /\ playlists' = playlists
      ]_vars

\* C10: a comment keeps the owner and the video it was created with as long
\* as it exists, and updateComment changes the content of its target and
\* nothing else.
C10_OwnerAndVideoImmutable ==
    [][/\ \A c \in DOMAIN comments \cap DOMAIN comments' :
            /\ comments'[c].owner = comments[c].owner
            /\ comments'[c].video = comments[c].video
       /\ \A u \in Users, v \in VideoIds, t \in Contents :
            addComment(u, v, t) =>
                /\ DOMAIN comments' = DOMAIN comments \cup {nextComment}
                /\ comments'[nextComment].owner = u
                /\ comments'[nextComment].video = v
                /\ \A c \in DOMAIN comments : comments'[c] = comments[c]
       /\ \A r \in Reqs :
            updateCommentWrite(r) =>
                /\ DOMAIN comments' = DOMAIN comments
                /\ \A c \in DOMAIN comments :
                      comments'[c] = IF c = req[r].id
                                     THEN [comments[c] EXCEPT !.content = req[r].content]
                                     ELSE comments[c]
      ]_vars

\* an update has just changed the content of a comment while another
\* comment of the same owner exists
C10_Witness ==
    /\ resp.op = "updateComment"
    /\ resp.statusCode = 200
    /\ resp.changed
    /\ \E c \in DOMAIN comments :
          /\ c # resp.data[1]._id
          /\ comments[c].owner = resp.data[1].owner
          /\ comments[c].content # resp.data[1].content

====
